---- MODULE Spec2Model ----
(***************************************************************************)
(* State-machine model of src/src/components/SoundMeter.tsx: the React     *)
(* component SoundMeter, its capture session (getUserMedia stream,         *)
(* AudioContext), its requestAnimationFrame loop `measure` and the state   *)
(* the loop derives (current/max/avg readouts, history, countdown).        *)
(*                                                                         *)
(* Conventions                                                             *)
(*  - Time is Date.now() in milliseconds.  elapsed/remaining, which the    *)
(*    code keeps in seconds, are kept in milliseconds (x1000), so every    *)
(*    comparison of the code is an exact integer comparison here.          *)
(*  - A loudness value (the result of calculateDb, a real in [0,100]) is   *)
(*    kept in fixed point: the integer v stands for v / DbScale dB.        *)
(*  - A `number | null` is a sequence: <<>> is null, <<v>> the number v.   *)
(*  - Every invocation of startMeasurement has an id c in Calls.  The      *)
(*    stream, the AudioContext and the `measure` closure (with its own     *)
(*    lastHistoryUpdate) that invocation creates carry the same id.  A     *)
(*    closure has at most one pending animation-frame request at a time,   *)
(*    so the request handle is identified with the closure id.             *)
(***************************************************************************)
EXTENDS Integers, Sequences, FiniteSets, TLC

\* ---------------------------------------------------------------- constants
MEASUREMENT_DURATION == 30
GRAPH_SAMPLE_INTERVAL == 1
SMOOTHING_SAMPLES == 8
\* a display interval half as long
DisplayIntervalHalved == 200 \div 2
DISPLAY_INTERVAL_MS == 200
MsPerSecond == 1000

\* ------------------------------------------------------------------- bounds
\* invocations of startMeasurement in one behaviour
MaxStarts == 2
\* samples one session may take in the general specification
MaxSamples == 2
\* samples one session may take in the long-session specification
MaxSamplesLong == 64
\* Date.now() when the component is mounted
Epoch0 == 1000
\* the clock stops advancing MaxIdleMs after Epoch0 unless a session runs
MaxIdleMs == 200
\* fixed-point denominator of loudness values
DbScale == 10

Calls == 1..MaxStarts
\* loudness samples the analyser may produce: 50.4 dB and 99.7 dB
DbValues == {504, 997}
DbValuesLong == {504}
\* milliseconds between two observations of the clock
TickSteps == {1000, 29000, 30000}
TickStepsLong == {1000}
\* frames at the rate of a display refresh as well
TickStepsFine == {100, 1000}
\* frames 100 ms apart only
TickStepsWindow == {100}

\* samples per session in the runs with sub-interval frames
MaxSamplesFine == 3
\* samples per session in the runs that overfill the rolling window
MaxSamplesWindow == 10

\* length of the buffers handed to calculateDb
MaxBufLen == 3
\* byte values of a time-domain buffer
ByteValues == {0, 64, 127, 128, 129, 255}
Buffers == UNION {[1..n -> ByteValues] : n \in 1..MaxBufLen}

\* length of the histories handed to generatePath
MaxHistLen == 3
\* loudness values of a history, in fixed point
HistoryValues == {0, 504, 997, 1000}
Histories == UNION {[1..n -> HistoryValues] : n \in 0..MaxHistLen}

\* the locals of generatePath
width == 800
height == 120
padding == 10

VARIABLES
    now,                 \* Date.now()
    advanced,            \* the clock advanced since a callback last read it
    mounted,             \* the component is mounted
    currentDb, maxDb, avgDb, isActive, timeLeft, history, showGraph,
    audioContextRef, streamRef, animationRef,
    measurementsRef, recentSamplesRef, startTimeRef, lastDisplayUpdateRef,
    lastHistoryUpdate,   \* per measure closure: its `let lastHistoryUpdate`
    pc,                  \* per invocation of startMeasurement
    liveStreams,         \* streams acquired whose tracks are not stopped
    openContexts,        \* AudioContexts created and not closed
    rafQueue,            \* pending animation-frame callbacks, in request order
    frameBatch,          \* callbacks of the frame being run, not yet visited
    lastAppendAt,        \* Date.now() of the latest history append, 0 if none
    dataArray,           \* the buffer calculateDb is applied to
    dbResult,            \* what calculateDb returned, as an enclosing interval
    path                 \* what generatePath returned, as a list of points

reactState == <<currentDb, maxDb, avgDb, isActive, timeLeft, history, showGraph>>
refs == <<audioContextRef, streamRef, animationRef, measurementsRef,
          recentSamplesRef, startTimeRef, lastDisplayUpdateRef>>
vars == <<now, advanced, mounted, currentDb, maxDb, avgDb, isActive, timeLeft, history,
          showGraph, audioContextRef, streamRef, animationRef, measurementsRef,
          recentSamplesRef, startTimeRef, lastDisplayUpdateRef,
          lastHistoryUpdate, pc, liveStreams, openContexts, rafQueue,
          frameBatch, lastAppendAt, dataArray, dbResult, path>>
\* the variables of the pure functions
pure == <<dataArray, dbResult, path>>

\* ------------------------------------------------------------------ helpers
Null == <<>>
Some(v) == <<v>>

SeqToSet(s) == {s[i] : i \in 1..Len(s)}

RECURSIVE SeqSum(_)
SeqSum(s) == IF s = <<>> THEN 0 ELSE Head(s) + SeqSum(Tail(s))

SeqMax(s) == CHOOSE m \in SeqToSet(s) : \A x \in SeqToSet(s) : x <= m
SeqMin(s) == CHOOSE m \in SeqToSet(s) : \A x \in SeqToSet(s) : m <= x

\* Math.round(num / den) for num >= 0, den > 0: floor(num/den + 1/2)
RoundDiv(num, den) == (2 * num + den) \div (2 * den)

\* Math.ceil(num / den) for num >= 0, den > 0
CeilDiv(num, den) == (num + den - 1) \div den

\* a readout that shows the latest sample instead of the largest
RoundedLast(xs) == RoundDiv(xs[Len(xs)], DbScale)

\* Math.round(Math.max(...xs)) of fixed-point samples
RoundedMax(xs) == RoundDiv(SeqMax(xs), DbScale)

\* a mean that is truncated instead of rounded
TruncatedMean(xs) == SeqSum(xs) \div (Len(xs) * DbScale)

\* Math.round(xs.reduce((a, b) => a + b, 0) / xs.length) of fixed-point samples
RoundedMean(xs) == RoundDiv(SeqSum(xs), Len(xs) * DbScale)

\* the sequence without the element h
Without(q, h) == SelectSeq(q, LAMBDA x : x # h)

\* cancelAnimationFrame(ref.current) guarded by `if (ref.current)`
CancelFrame(q, ref) == IF ref = Null THEN q ELSE Without(q, ref[1])

\* The `let lastHistoryUpdate` of every closure in the pending queue q; the
\* variable of a closure that can no longer run is unreachable and reads 0.
LiveClosures(lhu, q) ==
    [c \in DOMAIN lhu |-> IF c \in SeqToSet(q) THEN lhu[c] ELSE 0]

\* a window that is never shifted
PushWindowNoShift(w, db) == Append(w, db)

\* recentSamplesRef.current.push(db) followed by the shift() beyond the window
PushWindow(w, db) ==
    IF Len(w) + 1 > SMOOTHING_SAMPLES THEN Tail(Append(w, db)) ELSE Append(w, db)

\* (Date.now() - startTimeRef.current), in ms
ElapsedMs == now - startTimeRef

\* Math.max(0, MEASUREMENT_DURATION - elapsed), in ms
RemainingMs ==
    IF MEASUREMENT_DURATION * MsPerSecond - ElapsedMs > 0
    THEN MEASUREMENT_DURATION * MsPerSecond - ElapsedMs ELSE 0

\* a deadline test that the clamp of remaining at 0 makes unsatisfiable
ExpiredStrict == RemainingMs < 0

\* the test `remaining <= 0` of measure
Expired == RemainingMs <= 0

\* ------------------------------------------------------------- calculateDb
\* a sum of squares that forgets to centre the bytes at 128
SumSquaresUncentred(buf) == SeqSum([i \in 1..Len(buf) |-> buf[i] * buf[i]])

\* `sum` of calculateDb, times 128 * 128
SumSquares(buf) ==
    SeqSum([i \in 1..Len(buf) |-> (buf[i] - 128) * (buf[i] - 128)])

\* sum / dataArray.length is SumSquares(buf) / MeanSquareDen(buf)
MeanSquareDen(buf) == Len(buf) * 128 * 128

\* rms < 0.00001, that is SumSquares * 10^10 < MeanSquareDen
BelowEpsilon(buf) ==
    SumSquares(buf) <= ((MeanSquareDen(buf) - 1) \div 100000) \div 100000

\* floor(log10(num / den)) for 0 < num <= den
RECURSIVE FloorLog10(_, _)
FloorLog10(num, den) ==
    IF num >= den THEN 0 ELSE FloorLog10(10 * num, den) - 1

\* num / den is a power of ten, for 0 < num <= den
RECURSIVE IsPowerOfTen(_, _)
IsPowerOfTen(num, den) ==
    IF num >= den THEN num = den ELSE IsPowerOfTen(10 * num, den)

\* Math.max(0, Math.min(100, x))
Clamp(x) == IF x > 100 THEN 100 ELSE IF x < 0 THEN 0 ELSE x

\* calculateDb(buf) as the integers <<lo, hi>> with lo <= result <= hi:
\* 20 * log10(rms) is 10 * log10(sum / length), enclosed by its decade
CalculateDb(buf) ==
    IF BelowEpsilon(buf)
    THEN <<Clamp(20 * (0 - 5) + 100), Clamp(20 * (0 - 5) + 100)>>
    ELSE LET e == FloorLog10(SumSquares(buf), MeanSquareDen(buf))
             exact == IsPowerOfTen(SumSquares(buf), MeanSquareDen(buf))
         IN  <<Clamp(10 * e + 100),
               Clamp((IF exact THEN 10 * e ELSE 10 * e + 10) + 100)>>

\* ------------------------------------------------------------ generatePath
\* a path whose range has no floor
GeneratePathNoFloor(h) ==
    IF Len(h) < 2 THEN <<>>
    ELSE LET minDb == SeqMin(h)
             maxDbVal == SeqMax(h)
             range == maxDbVal - minDb
         IN  [i \in 1..Len(h) |->
                [xNum |-> padding * (Len(h) - 1) + (i - 1) * (width - 2 * padding),
                 xDen |-> Len(h) - 1,
                 yNum |-> (height - padding) * range
                            - (h[i] - minDb) * (height - 2 * padding),
                 yDen |-> range]]

\* generatePath() for the history h: the points of the path, each coordinate
\* as an exact fraction; the empty path has no point.  `|| 1` replaces a
\* range of 0 by 1 dB.
GeneratePath(h) ==
    IF Len(h) < 2 THEN <<>>
    ELSE LET minDb == SeqMin(h)
             maxDbVal == SeqMax(h)
             range == IF maxDbVal - minDb = 0 THEN DbScale ELSE maxDbVal - minDb
         IN  [i \in 1..Len(h) |->
                [xNum |-> padding * (Len(h) - 1) + (i - 1) * (width - 2 * padding),
                 xDen |-> Len(h) - 1,
                 yNum |-> (height - padding) * range
                            - (h[i] - minDb) * (height - 2 * padding),
                 yDen |-> range]]

\* ---------------------------------------------------------------------- Init
Init ==
    /\ now = Epoch0
    /\ advanced = FALSE
    /\ mounted = TRUE
    /\ currentDb = Null
    /\ maxDb = Null
    /\ avgDb = Null
    /\ isActive = FALSE
    /\ timeLeft = MEASUREMENT_DURATION
    /\ history = <<>>
    /\ showGraph = FALSE
    /\ audioContextRef = Null
    /\ streamRef = Null
    /\ animationRef = Null
    /\ measurementsRef = <<>>
    /\ recentSamplesRef = <<>>
    /\ startTimeRef = 0
    /\ lastDisplayUpdateRef = 0
    /\ lastHistoryUpdate = [c \in Calls |-> 0]
    /\ pc = [c \in Calls |-> "idle"]
    /\ liveStreams = {}
    /\ openContexts = {}
    /\ rafQueue = <<>>
    /\ frameBatch = <<>>
    /\ lastAppendAt = 0
    /\ dataArray = <<0>>
    /\ dbResult = Null
    /\ path = Null

\* ------------------------------------------------------------------- actions
\* cleanup(), run when the pending callbacks are q
Cleanup(q) ==
    /\ rafQueue' = CancelFrame(q, animationRef)
    /\ animationRef' = Null
    /\ liveStreams' = IF streamRef = Null THEN liveStreams
                      ELSE liveStreams \ {streamRef[1]}
    /\ streamRef' = Null
    /\ openContexts' = IF audioContextRef = Null THEN openContexts
                       ELSE openContexts \ {audioContextRef[1]}
    /\ audioContextRef' = Null
    /\ lastHistoryUpdate' = LiveClosures(lastHistoryUpdate, rafQueue')

\* a reset block that forgets setHistory([])
ResetKeepsHistory ==
    /\ measurementsRef' = <<>>
    /\ recentSamplesRef' = <<>>
    /\ startTimeRef' = now
    /\ lastDisplayUpdateRef' = 0
    /\ isActive' = TRUE
    /\ showGraph' = FALSE
    /\ history' = history
    /\ maxDb' = Null
    /\ avgDb' = Null
    /\ currentDb' = Null
    /\ timeLeft' = MEASUREMENT_DURATION

\* a reset block that forgets setCurrentDb(null)
ResetKeepsCurrent ==
    /\ measurementsRef' = <<>>
    /\ recentSamplesRef' = <<>>
    /\ startTimeRef' = now
    /\ lastDisplayUpdateRef' = 0
    /\ isActive' = TRUE
    /\ showGraph' = FALSE
    /\ history' = <<>>
    /\ maxDb' = Null
    /\ avgDb' = Null
    /\ currentDb' = currentDb
    /\ timeLeft' = MEASUREMENT_DURATION

\* the reset block of startMeasurement
ResetSessionState ==
    /\ measurementsRef' = <<>>
    /\ recentSamplesRef' = <<>>
    /\ startTimeRef' = now
    /\ lastDisplayUpdateRef' = 0
    /\ isActive' = TRUE
    /\ showGraph' = FALSE
    /\ history' = <<>>
    /\ maxDb' = Null
    /\ avgDb' = Null
    /\ currentDb' = Null
    /\ timeLeft' = MEASUREMENT_DURATION

\* a session can still take a frame before its deadline
SessionPending ==
    /\ rafQueue # <<>>
    /\ ElapsedMs < MEASUREMENT_DURATION * MsPerSecond

\* The clock advances.  While no callback is pending it advances up to the
\* idle horizon.  While one is pending it advances once between two
\* callbacks; when the session has taken `cap` samples the browser delivers
\* no further frame before the deadline.
Tick(steps, cap) ==
    /\ \/ now < Epoch0 + MaxIdleMs
       \/ rafQueue # <<>> /\ ~advanced
       \/ SessionPending /\ Len(measurementsRef) >= cap
    /\ \E d \in (IF SessionPending /\ Len(measurementsRef) >= cap
                THEN {RemainingMs} ELSE steps) : now' = now + d
    /\ advanced' = TRUE
    /\ UNCHANGED <<mounted, reactState, refs, lastHistoryUpdate, pc,
                   liveStreams, openContexts, rafQueue, frameBatch>>
    /\ UNCHANGED <<lastAppendAt, pure>>

\* The start button is clicked: startMeasurement runs up to its await.
\* Invocations take their ids in order.
ClickStart(c) ==
    /\ mounted
    /\ ~isActive
    /\ frameBatch = <<>>
    /\ pc[c] = "idle"
    /\ \A d \in Calls : d < c => pc[d] # "idle"
    /\ pc' = [pc EXCEPT ![c] = "awaiting"]
    /\ UNCHANGED <<now, advanced, mounted, reactState, refs, lastHistoryUpdate,
                   liveStreams, openContexts, rafQueue, frameBatch>>
    /\ UNCHANGED <<lastAppendAt, pure>>

\* getUserMedia rejects: the catch block runs.
GetUserMediaRejects(c) ==
    /\ pc[c] = "awaiting"
    /\ frameBatch = <<>>
    /\ pc' = [pc EXCEPT ![c] = "failed"]
    /\ isActive' = FALSE
    /\ UNCHANGED <<now, advanced, mounted, currentDb, maxDb, avgDb, timeLeft, history,
                   showGraph, refs, lastHistoryUpdate, liveStreams,
                   openContexts, rafQueue, frameBatch>>
    /\ UNCHANGED <<lastAppendAt, pure>>

\* getUserMedia resolves and `new AudioContext()` throws: the stream is
\* stored, then the catch block runs.
AudioContextThrows(c) ==
    /\ pc[c] = "awaiting"
    /\ frameBatch = <<>>
    /\ pc' = [pc EXCEPT ![c] = "failed"]
    /\ liveStreams' = liveStreams \cup {c}
    /\ streamRef' = Some(c)
    /\ isActive' = FALSE
    /\ UNCHANGED <<now, advanced, mounted, currentDb, maxDb, avgDb, timeLeft, history,
                   showGraph, audioContextRef, animationRef, measurementsRef,
                   recentSamplesRef, startTimeRef, lastDisplayUpdateRef,
                   lastHistoryUpdate, openContexts, rafQueue, frameBatch>>
    /\ UNCHANGED <<lastAppendAt, pure>>

\* getUserMedia resolves, the AudioContext is created and stored, and
\* createAnalyser / createMediaStreamSource / connect throws: catch block.
SourceThrows(c) ==
    /\ pc[c] = "awaiting"
    /\ frameBatch = <<>>
    /\ pc' = [pc EXCEPT ![c] = "failed"]
    /\ liveStreams' = liveStreams \cup {c}
    /\ streamRef' = Some(c)
    /\ openContexts' = openContexts \cup {c}
    /\ audioContextRef' = Some(c)
    /\ isActive' = FALSE
    /\ UNCHANGED <<now, advanced, mounted, currentDb, maxDb, avgDb, timeLeft, history,
                   showGraph, animationRef, measurementsRef, recentSamplesRef,
                   startTimeRef, lastDisplayUpdateRef, lastHistoryUpdate,
                   rafQueue, frameBatch>>
    /\ UNCHANGED <<lastAppendAt, pure>>

\* getUserMedia resolves and the rest of the try block completes.
StartSucceeds(c) ==
    /\ pc[c] = "awaiting"
    /\ frameBatch = <<>>
    /\ pc' = [pc EXCEPT ![c] = "started"]
    /\ liveStreams' = liveStreams \cup {c}
    /\ streamRef' = Some(c)
    /\ openContexts' = openContexts \cup {c}
    /\ audioContextRef' = Some(c)
    /\ ResetSessionState
    /\ lastHistoryUpdate' = [lastHistoryUpdate EXCEPT ![c] = 0]
    /\ animationRef' = Some(c)
    /\ rafQueue' = Append(rafQueue, c)
    /\ lastAppendAt' = 0
    /\ UNCHANGED <<now, advanced, mounted, frameBatch>>
    /\ UNCHANGED pure

\* The browser begins an animation frame: it snapshots the pending callbacks.
\* Two frames are at least one display refresh apart, so the millisecond
\* clock has advanced since the callbacks of the previous frame read it.
BeginFrame ==
    /\ frameBatch = <<>>
    /\ advanced
    /\ rafQueue # <<>>
    /\ frameBatch' = rafQueue
    /\ UNCHANGED <<now, advanced, mounted, reactState, refs, lastHistoryUpdate, pc,
                   liveStreams, openContexts, rafQueue>>
    /\ UNCHANGED <<lastAppendAt, pure>>

\* A callback of the running frame was cancelled before its turn.
SkipCancelled ==
    /\ frameBatch # <<>>
    /\ Head(frameBatch) \notin SeqToSet(rafQueue)
    /\ frameBatch' = Tail(frameBatch)
    /\ UNCHANGED <<now, advanced, mounted, reactState, refs, lastHistoryUpdate, pc,
                   liveStreams, openContexts, rafQueue>>
    /\ UNCHANGED <<lastAppendAt, pure>>

\* measure(), the branch `remaining <= 0`: the session completes.
MeasureComplete ==
    /\ frameBatch # <<>>
    /\ Head(frameBatch) \in SeqToSet(rafQueue)
    /\ Expired
    /\ frameBatch' = Tail(frameBatch)
    /\ timeLeft' = CeilDiv(RemainingMs, MsPerSecond)
    /\ isActive' = FALSE
    /\ Cleanup(Without(rafQueue, Head(frameBatch)))
    /\ IF Len(measurementsRef) > 0
       THEN /\ maxDb' = Some(RoundedMax(measurementsRef))
            /\ avgDb' = Some(RoundedMean(measurementsRef))
       ELSE UNCHANGED <<maxDb, avgDb>>
    /\ showGraph' = TRUE
    /\ advanced' = FALSE
    /\ UNCHANGED <<now, mounted, currentDb, history, measurementsRef,
                   recentSamplesRef, startTimeRef, lastDisplayUpdateRef, pc>>
    /\ UNCHANGED <<lastAppendAt, pure>>

\* measure(), the branch `remaining > 0`: one sample is taken.
MeasureSample(dbs, cap) ==
    /\ frameBatch # <<>>
    /\ Head(frameBatch) \in SeqToSet(rafQueue)
    /\ ~Expired
    /\ Len(measurementsRef) < cap
    /\ \E db \in dbs :
        LET self == Head(frameBatch)
            ms == Append(measurementsRef, db)
            win == PushWindow(recentSamplesRef, db)
        IN  /\ frameBatch' = Tail(frameBatch)
            /\ timeLeft' = CeilDiv(RemainingMs, MsPerSecond)
            /\ measurementsRef' = ms
            /\ recentSamplesRef' = win
            /\ IF now - lastDisplayUpdateRef >= DISPLAY_INTERVAL_MS
               THEN /\ currentDb' = Some(RoundedMean(win))
                    /\ lastDisplayUpdateRef' = now
                    /\ maxDb' = Some(RoundedMax(ms))
                    /\ avgDb' = Some(RoundedMean(ms))
               ELSE UNCHANGED <<currentDb, lastDisplayUpdateRef, maxDb, avgDb>>
            /\ IF ElapsedMs - lastHistoryUpdate[self]
                    >= GRAPH_SAMPLE_INTERVAL * MsPerSecond
               THEN /\ history' = Append(history, db)
                    /\ lastHistoryUpdate' =
                           [lastHistoryUpdate EXCEPT ![self] = ElapsedMs]
                    /\ lastAppendAt' = now
               ELSE UNCHANGED <<history, lastHistoryUpdate, lastAppendAt>>
            /\ animationRef' = Some(self)
            /\ rafQueue' = Append(Without(rafQueue, self), self)
    /\ advanced' = FALSE
    /\ UNCHANGED <<now, mounted, isActive, showGraph, audioContextRef,
                   streamRef, startTimeRef, pc, liveStreams, openContexts>>
    /\ UNCHANGED pure

\* The component is unmounted: the effect's teardown runs cleanup().
Unmount ==
    /\ mounted
    /\ frameBatch = <<>>
    /\ mounted' = FALSE
    /\ Cleanup(rafQueue)
    /\ UNCHANGED <<now, advanced, reactState, measurementsRef, recentSamplesRef,
                   startTimeRef, lastDisplayUpdateRef, pc, frameBatch>>
    /\ UNCHANGED <<lastAppendAt, pure>>

\* the render guard of the graph: showGraph && history.length > 1
GraphRendered == showGraph /\ Len(history) > 1

\* --------------------------------------------------------- specifications
Next ==
    \/ Tick(TickSteps, MaxSamples)
    \/ \E c \in Calls : ClickStart(c)
    \/ \E c \in Calls : GetUserMediaRejects(c)
    \/ \E c \in Calls : AudioContextThrows(c)
    \/ \E c \in Calls : SourceThrows(c)
    \/ \E c \in Calls : StartSucceeds(c)
    \/ BeginFrame
    \/ SkipCancelled
    \/ MeasureComplete
    \/ MeasureSample(DbValues, MaxSamples)
    \/ Unmount

Spec == Init /\ [][Next]_vars

\* The frame callbacks keep firing and the clock keeps advancing; the
\* loudness values, which no guard reads, are kept to one.
NextLive ==
    \/ Tick(TickSteps, MaxSamples)
    \/ \E c \in Calls : ClickStart(c)
    \/ \E c \in Calls : GetUserMediaRejects(c)
    \/ \E c \in Calls : AudioContextThrows(c)
    \/ \E c \in Calls : SourceThrows(c)
    \/ \E c \in Calls : StartSucceeds(c)
    \/ BeginFrame
    \/ SkipCancelled
    \/ MeasureComplete
    \/ MeasureSample(DbValuesLong, MaxSamples)
    \/ Unmount

SpecLive ==
    /\ Init
    /\ [][NextLive]_vars
    /\ WF_vars(Tick(TickSteps, MaxSamples))
    /\ WF_vars(BeginFrame)
    /\ WF_vars(SkipCancelled)
    /\ WF_vars(MeasureComplete)
    /\ WF_vars(MeasureSample(DbValuesLong, MaxSamples))

\* Long sessions: one loudness value, one frame per second at most.
NextLong ==
    \/ Tick(TickStepsLong, MaxSamplesLong)
    \/ \E c \in Calls : ClickStart(c)
    \/ \E c \in Calls : GetUserMediaRejects(c)
    \/ \E c \in Calls : AudioContextThrows(c)
    \/ \E c \in Calls : SourceThrows(c)
    \/ \E c \in Calls : StartSucceeds(c)
    \/ BeginFrame
    \/ SkipCancelled
    \/ MeasureComplete
    \/ MeasureSample(DbValuesLong, MaxSamplesLong)
    \/ Unmount

SpecLong == Init /\ [][NextLong]_vars

\* The start button is clicked while no earlier invocation awaits its
\* permission prompt.
ClickStartAlone(c) ==
    /\ \A d \in Calls : pc[d] # "awaiting"
    /\ ClickStart(c)

\* Sessions started one after the other, frames 100 ms or 1 s apart.
\* A single loop is never cancelled between a frame's snapshot and its turn.
NextFine ==
    \/ Tick(TickStepsFine, MaxSamplesFine)
    \/ \E c \in Calls : ClickStartAlone(c)
    \/ \E c \in Calls : GetUserMediaRejects(c)
    \/ \E c \in Calls : AudioContextThrows(c)
    \/ \E c \in Calls : SourceThrows(c)
    \/ \E c \in Calls : StartSucceeds(c)
    \/ BeginFrame
    \/ MeasureComplete
    \/ MeasureSample(DbValues, MaxSamplesFine)
    \/ Unmount

SpecFine == Init /\ [][NextFine]_vars

\* Sessions started one after the other that take more samples than the
\* rolling window holds, at ten frames per second.
\* A single loop is never cancelled between a frame's snapshot and its turn.
NextWindow ==
    \/ Tick(TickStepsWindow, MaxSamplesWindow)
    \/ \E c \in Calls : ClickStartAlone(c)
    \/ \E c \in Calls : GetUserMediaRejects(c)
    \/ \E c \in Calls : AudioContextThrows(c)
    \/ \E c \in Calls : SourceThrows(c)
    \/ \E c \in Calls : StartSucceeds(c)
    \/ BeginFrame
    \/ MeasureComplete
    \/ MeasureSample(DbValues, MaxSamplesWindow)
    \/ Unmount

SpecWindow == Init /\ [][NextWindow]_vars

\* calculateDb: the first frame of a session, 1 s after its start, has
\* filled the buffer from the analyser.
InitDb ==
    /\ now = Epoch0 + MsPerSecond
    /\ advanced = TRUE
    /\ mounted = TRUE
    /\ currentDb = Null
    /\ maxDb = Null
    /\ avgDb = Null
    /\ isActive = TRUE
    /\ timeLeft = MEASUREMENT_DURATION
    /\ history = <<>>
    /\ showGraph = FALSE
    /\ audioContextRef = Some(1)
    /\ streamRef = Some(1)
    /\ animationRef = Some(1)
    /\ measurementsRef = <<>>
    /\ recentSamplesRef = <<>>
    /\ startTimeRef = Epoch0
    /\ lastDisplayUpdateRef = 0
    /\ lastHistoryUpdate = [c \in Calls |-> 0]
    /\ pc = [c \in Calls |-> IF c = 1 THEN "started" ELSE "idle"]
    /\ liveStreams = {1}
    /\ openContexts = {1}
    /\ rafQueue = <<1>>
    /\ frameBatch = <<1>>
    /\ lastAppendAt = 0
    /\ dataArray \in Buffers
    /\ dbResult = Null
    /\ path = Null

\* measure() calls calculateDb(dataArray)
ApplyCalculateDb ==
    /\ frameBatch # <<>>
    /\ dbResult = Null
    /\ dbResult' = Some(CalculateDb(dataArray))
    /\ UNCHANGED <<now, advanced, mounted, reactState, refs, lastHistoryUpdate,
                   pc, liveStreams, openContexts, rafQueue, frameBatch,
                   lastAppendAt, dataArray, path>>

NextDb == ApplyCalculateDb

SpecDb == InitDb /\ [][NextDb]_vars

\* generatePath: a session whose frames were 1 s apart has completed, so
\* every sample it took is in the history.
InitPath ==
    /\ history \in Histories
    /\ now = Epoch0 + MEASUREMENT_DURATION * MsPerSecond
    /\ advanced = FALSE
    /\ mounted = TRUE
    /\ currentDb = (IF history = <<>> THEN Null ELSE Some(RoundedMean(history)))
    /\ maxDb = (IF history = <<>> THEN Null ELSE Some(RoundedMax(history)))
    /\ avgDb = (IF history = <<>> THEN Null ELSE Some(RoundedMean(history)))
    /\ isActive = FALSE
    /\ timeLeft = 0
    /\ showGraph = TRUE
    /\ audioContextRef = Null
    /\ streamRef = Null
    /\ animationRef = Null
    /\ measurementsRef = history
    /\ recentSamplesRef = history
    /\ startTimeRef = Epoch0
    /\ lastDisplayUpdateRef =
           (IF history = <<>> THEN 0 ELSE Epoch0 + Len(history) * MsPerSecond)
    /\ lastHistoryUpdate = [c \in Calls |-> 0]
    /\ pc = [c \in Calls |-> IF c = 1 THEN "started" ELSE "idle"]
    /\ liveStreams = {}
    /\ openContexts = {}
    /\ rafQueue = <<>>
    /\ frameBatch = <<>>
    /\ lastAppendAt =
           (IF history = <<>> THEN 0 ELSE Epoch0 + Len(history) * MsPerSecond)
    /\ dataArray = <<0>>
    /\ dbResult = Null
    /\ path = Null

\* the render calls generatePath()
ApplyGeneratePath ==
    /\ path = Null
    /\ path' = Some(GeneratePath(history))
    /\ UNCHANGED <<now, advanced, mounted, reactState, refs, lastHistoryUpdate,
                   pc, liveStreams, openContexts, rafQueue, frameBatch,
                   lastAppendAt, dataArray, dbResult>>

NextPath == ApplyGeneratePath

SpecPath == InitPath /\ [][NextPath]_vars

\* ------------------------------------------------------------------ claims
\* a startMeasurement invocation takes its catch block in this step
StartFails == \E c \in Calls : pc[c] = "awaiting" /\ pc'[c] = "failed"

\* a startMeasurement invocation completes its try block in this step
StartSucceeded == \E c \in Calls : pc[c] = "awaiting" /\ pc'[c] = "started"

\* a measure loop is scheduled or running
LoopRunning == rafQueue # <<>>

\* the samples of the session, as a set of indices
SampleIdx == 1..Len(measurementsRef)

\* a is Math.round(num / den): the integer nearest to num/den, halves up
IsRounded(a, num, den) ==
    /\ 2 * den * a - den <= 2 * num
    /\ 2 * num < 2 * den * a + den

\* C1: at most one measurement session is active at any time: at most one
\* frame loop is scheduled, at most one acquired capture stream is unreleased
\* and at most one audio context is open.
C1_AtMostOneSession ==
    /\ Cardinality(SeqToSet(rafQueue)) <= 1
    /\ Cardinality(liveStreams) <= 1
    /\ Cardinality(openContexts) <= 1

\* C2: the step in which a session becomes Complete leaves no capture stream
\* with running tracks, no open audio context and no pending frame callback.
C2_CompletionReleasesCapture ==
    [][(~showGraph /\ showGraph') =>
          /\ liveStreams' = {}
          /\ openContexts' = {}
          /\ rafQueue' = <<>>]_vars

\* C3: once the component is unmounted no capture stream is held open, no
\* audio context is open and no measure callback is scheduled.
C3_TeardownReleasesCapture ==
    ~mounted => /\ liveStreams = {}
                /\ openContexts = {}
                /\ rafQueue = <<>>

\* C4: a failing startMeasurement leaves isActive false, holds no stream or
\* audio context it acquired, schedules no frame callback and leaves the
\* displayed current/max/avg/history/graph state unchanged.
C4_FailureLeavesNothing ==
    [][StartFails =>
          /\ ~isActive'
          /\ liveStreams' \subseteq liveStreams
          /\ openContexts' \subseteq openContexts
          /\ rafQueue' = rafQueue
          /\ <<currentDb', maxDb', avgDb', history', showGraph'>>
               = <<currentDb, maxDb, avgDb, history, showGraph>>]_vars

\* the session is Complete: inactive, graph enabled, loop stopped
Completed == ~isActive /\ showGraph /\ rafQueue = <<>> /\ timeLeft = 0

\* C5: while the component stays mounted and frames keep firing, a running
\* session eventually becomes Complete: isActive false, the graph enabled and
\* no frame callback rescheduled.
C5_RunningBecomesComplete ==
    (mounted /\ LoopRunning) ~> (Completed \/ ~mounted)

C5_Witness ==
    /\ mounted
    /\ Completed
    /\ Len(measurementsRef) = MaxSamples
    /\ \E c \in Calls : pc[c] = "started"

\* C6: in a Complete session with samples, the displayed max is the rounded
\* largest and the displayed avg the rounded mean of the session's samples;
\* without samples max and avg are unset.
C6_FinalStatistics ==
    showGraph =>
        IF measurementsRef = <<>>
        THEN maxDb = Null /\ avgDb = Null
        ELSE /\ maxDb # Null
             /\ avgDb # Null
             /\ \E i \in SampleIdx :
                   /\ \A j \in SampleIdx : measurementsRef[j] <= measurementsRef[i]
                   /\ IsRounded(maxDb[1], measurementsRef[i], DbScale)
             /\ IsRounded(avgDb[1], SeqSum(measurementsRef),
                          Len(measurementsRef) * DbScale)

C6_Witness ==
    /\ showGraph
    /\ Len(measurementsRef) = 2
    /\ measurementsRef[1] > measurementsRef[2]
    /\ maxDb = Some(100)
    /\ avgDb = Some(75)

\* C6, the empty case: a session completes without a sample
C6_WitnessEmpty == showGraph /\ measurementsRef = <<>> /\ maxDb = Null

\* C7 as stated: whenever the sample set is non-empty and max/avg are set,
\* the displayed max is >= every sample and the displayed avg lies between
\* the smallest and the largest sample.
C7_MaxAvgBracketSamples ==
    (measurementsRef # <<>> /\ maxDb # Null /\ avgDb # Null) =>
        /\ \A i \in SampleIdx : maxDb[1] * DbScale >= measurementsRef[i]
        /\ avgDb[1] * DbScale >= SeqMin(measurementsRef)
        /\ avgDb[1] * DbScale <= SeqMax(measurementsRef)

\* C7 amended: whenever max/avg are set they bracket, up to the rounding of
\* the display (half a dB), the samples taken up to the last display update:
\* for a non-empty prefix of the sample set, max + 0.5 >= every sample of the
\* prefix and min - 0.5 <= avg <= max + 0.5 over the prefix.
C7_MaxAvgBracketShownSamples ==
    (maxDb # Null /\ avgDb # Null) =>
        \E k \in SampleIdx :
            LET shown == SubSeq(measurementsRef, 1, k)
            IN  /\ \A i \in 1..k : 2 * DbScale * maxDb[1] + DbScale >= 2 * shown[i]
                /\ 2 * DbScale * avgDb[1] + DbScale >= 2 * SeqMin(shown)
                /\ 2 * DbScale * avgDb[1] - DbScale <= 2 * SeqMax(shown)

C7_Witness ==
    /\ Len(measurementsRef) = 2
    /\ measurementsRef[1] < measurementsRef[2]
    /\ maxDb = Some(50)
    /\ avgDb = Some(50)

\* C8: while a session is Running and has not taken a sample, the sample
\* set, the rolling window and the history are empty, current/max/avg are
\* unset, the graph is hidden and the countdown shows the full duration.
C8_StartResetsSession ==
    (isActive /\ measurementsRef = <<>>) =>
        /\ recentSamplesRef = <<>>
        /\ history = <<>>
        /\ currentDb = Null
        /\ maxDb = Null
        /\ avgDb = Null
        /\ ~showGraph
        /\ timeLeft = MEASUREMENT_DURATION

\* a second session has started after a first one ran to its deadline
C8_Witness ==
    /\ pc[1] = "started"
    /\ pc[2] = "started"
    /\ rafQueue = <<2>>
    /\ isActive
    /\ measurementsRef = <<>>
    /\ now - Epoch0 >= MEASUREMENT_DURATION * MsPerSecond

\* C9: while a session is Running (isActive), only the deadline ends it and
\* no startMeasurement succeeds: isActive turns false only in the step that
\* completes the session, and a start trigger does not restart it.
C9_OnlyDeadlineEndsSession ==
    [][isActive =>
          /\ ~isActive' => (Expired /\ showGraph')
          /\ ~StartSucceeded]_vars

\* C10: the history never holds more entries than the session has sample
\* intervals, plus one.
C10_HistoryBounded ==
    Len(history) * GRAPH_SAMPLE_INTERVAL
        <= MEASUREMENT_DURATION + GRAPH_SAMPLE_INTERVAL

\* a measure callback runs in this step
FrameStep ==
    /\ frameBatch # <<>>
    /\ Head(frameBatch) \in SeqToSet(rafQueue)
    /\ frameBatch' = Tail(frameBatch)

\* the clock is at or past the session's deadline
AtDeadline == now - startTimeRef >= MEASUREMENT_DURATION * MsPerSecond

\* C15: the graph is never visible while a session is active, it becomes
\* visible only in the step in which a measure callback at the deadline takes
\* a Running session (isActive true) to Complete, and it is rendered only
\* with at least 2 history entries.
C15_GraphPostSessionOnly ==
    [][/\ ~(showGraph' /\ isActive')
       /\ (~showGraph /\ showGraph') =>
              (isActive /\ FrameStep /\ AtDeadline /\ ~isActive')
       /\ GraphRendered' => (~isActive' /\ Len(history') >= 2)]_vars

\* C17: a measure callback at or after the deadline pushes nothing to the
\* sample set, the rolling window or the history, no sample is taken at or
\* after the deadline, and in a Complete session the sample set, history,
\* max, avg and current value change only by a successful startMeasurement.
C17_CompleteSessionFrozen ==
    [][/\ (FrameStep /\ AtDeadline) =>
              /\ measurementsRef' = measurementsRef
              /\ recentSamplesRef' = recentSamplesRef
              /\ history' = history
       /\ (showGraph /\ ~StartSucceeded) =>
              <<measurementsRef', history', maxDb', avgDb', currentDb'>>
                = <<measurementsRef, history, maxDb, avgDb, currentDb>>]_vars

\* a Complete session with samples during which a later start is pending
C17_Witness ==
    /\ showGraph
    /\ measurementsRef # <<>>
    /\ history # <<>>
    /\ pc[1] = "started"
    /\ pc[2] = "awaiting"

\* C18: while a session is Running timeLeft is an integer in 0..30 that never
\* increases, it is 0 once the session is Complete, and it becomes 0 only in
\* the step that ends the session.
C18_CountdownConsistent ==
    [][/\ isActive' => timeLeft' \in 0..MEASUREMENT_DURATION
       /\ (isActive /\ isActive') => timeLeft' <= timeLeft
       /\ showGraph' => timeLeft' = 0
       /\ (timeLeft # 0 /\ timeLeft' = 0) => (~isActive' /\ showGraph')]_vars

\* C19: current, max and avg are all unset or all set, and they are unset
\* exactly when no sample has been taken since the last successful start.
C19_ReadoutsSetTogether ==
    /\ (currentDb = Null) = (maxDb = Null)
    /\ (maxDb = Null) = (avgDb = Null)
    /\ (currentDb = Null) = (measurementsRef = <<>>)

\* a second session has taken its first sample
C19_Witness ==
    /\ pc[1] = "started"
    /\ pc[2] = "started"
    /\ rafQueue = <<2>>
    /\ Len(measurementsRef) = 1
    /\ currentDb # Null
    /\ maxDb # Null
    /\ avgDb # Null

\* the last k elements of s
LastN(s, k) == SubSeq(s, Len(s) - k + 1, Len(s))

\* the rolling window holds at most 8 samples, the latest of the session
WindowIsRecent ==
    /\ Len(recentSamplesRef) <= 8
    /\ Len(recentSamplesRef) <= Len(measurementsRef)
    /\ Len(measurementsRef) <= 8 => recentSamplesRef = measurementsRef
    /\ Len(measurementsRef) > 8 => recentSamplesRef = LastN(measurementsRef, 8)

\* C11: the rolling window never holds more than 8 samples and holds exactly
\* the most recent min(n, 8) samples of the session in order; the displayed
\* current value lies between the minimum and the maximum of those samples.
C11_CurrentWithinWindow ==
    /\ WindowIsRecent
    /\ currentDb # Null =>
           /\ \E i \in 1..Len(recentSamplesRef) :
                  recentSamplesRef[i] <= currentDb[1] * DbScale
           /\ \E i \in 1..Len(recentSamplesRef) :
                  currentDb[1] * DbScale <= recentSamplesRef[i]

\* C11 (amended): the window is as stated, and the displayed current value is
\* the mean, rounded to the nearest integer, of the window as it was at the
\* latest display update: of the last min(k, 8) of the first k samples for
\* some k; so it is within half a dB of the range of those samples.
C11_CurrentIsRoundedWindowMean ==
    /\ WindowIsRecent
    /\ currentDb # Null =>
           \E k \in 1..Len(measurementsRef) :
               LET shown == SubSeq(measurementsRef, 1, k)
                   win == IF k <= 8 THEN shown ELSE LastN(shown, 8)
               IN  /\ IsRounded(currentDb[1], SeqSum(win), Len(win) * DbScale)
                   /\ \E i \in 1..Len(win) :
                          2 * win[i] - DbScale <= 2 * currentDb[1] * DbScale
                   /\ \E i \in 1..Len(win) :
                          2 * currentDb[1] * DbScale <= 2 * win[i] + DbScale

\* the ninth and tenth sample have pushed the first two out of the window,
\* and the display still shows the mean of the window before the tenth
C11_Witness ==
    /\ Len(measurementsRef) = 10
    /\ Len(recentSamplesRef) = 8
    /\ measurementsRef[1] # measurementsRef[9]
    /\ now - lastDisplayUpdateRef = 100
    /\ currentDb # Null
    /\ currentDb # Some(RoundedMean(recentSamplesRef))

\* C12: calculateDb returns a value in [0, 100] for every non-empty buffer of
\* bytes, and exactly 0 for a buffer in which every element is 128.
C12_CalculateDbRange ==
    dbResult # Null =>
        /\ 0 <= dbResult[1][1]
        /\ dbResult[1][1] <= dbResult[1][2]
        /\ dbResult[1][2] <= 100
        /\ (\A i \in 1..Len(dataArray) : dataArray[i] = 128) =>
               (dbResult[1][1] = 0 /\ dbResult[1][2] = 0)

\* calculateDb has been applied to a silent buffer of the largest length
C12_Witness ==
    /\ dbResult # Null
    /\ Len(dataArray) = 3
    /\ \A i \in 1..Len(dataArray) : dataArray[i] = 128

\* calculateDb has been applied to a buffer that is not silent
C12_WitnessLoud ==
    /\ dbResult # Null
    /\ dataArray = <<127, 128, 129>>
    /\ dbResult[1][1] > 0

\* C13: the history changes only by a session reset or by a measure frame
\* before the deadline that appends that frame's own sample after the earlier
\* entries, and two consecutive appends of a session are at least 1 s apart.
C13_HistoryAppendOnly ==
    [][history' # history =>
          \/ StartSucceeded /\ history' = <<>>
          \/ /\ FrameStep
             /\ ~AtDeadline
             /\ Len(measurementsRef') = Len(measurementsRef) + 1
             /\ history' = Append(history, measurementsRef'[Len(measurementsRef')])
             /\ lastAppendAt = 0 \/ now - lastAppendAt >= 1000]_vars

\* a display update happens in this step
DisplayUpdated ==
    /\ ~StartSucceeded
    /\ \/ lastDisplayUpdateRef' # lastDisplayUpdateRef
       \/ currentDb' # currentDb

\* C14: a display update happens at least 200 ms after the previous one of
\* the session, the first sampled frame of a session updates the display, and
\* every measure frame before the deadline pushes its sample into the sample
\* set and the rolling window whether or not the display is updated.
C14_DisplayThrottled ==
    [][/\ DisplayUpdated =>
              /\ FrameStep
              /\ lastDisplayUpdateRef = 0 \/ now - lastDisplayUpdateRef >= 200
              /\ lastDisplayUpdateRef' = now
       /\ (FrameStep /\ ~AtDeadline /\ measurementsRef = <<>>) =>
              /\ currentDb' # Null
              /\ lastDisplayUpdateRef' = now
       /\ (FrameStep /\ ~AtDeadline) =>
              /\ Len(measurementsRef') = Len(measurementsRef) + 1
              /\ SubSeq(measurementsRef', 1, Len(measurementsRef)) = measurementsRef
              /\ recentSamplesRef' # <<>>
              /\ recentSamplesRef'[Len(recentSamplesRef')]
                     = measurementsRef'[Len(measurementsRef')]]_vars

\* a frame 100 ms after a display update has pushed its sample without
\* updating the display
C14_Witness ==
    /\ Len(measurementsRef) = 2
    /\ Len(recentSamplesRef) = 2
    /\ lastDisplayUpdateRef # 0
    /\ now - lastDisplayUpdateRef = 100
    /\ frameBatch = <<>>
    /\ ~advanced
    /\ currentDb = Some(RoundDiv(measurementsRef[1], DbScale))
    /\ measurementsRef[1] # measurementsRef[2]

\* C16: generatePath never divides by zero and stays inside the plot area:
\* for a history of n >= 2 values point i has x = 10 + i / (n - 1) * 780,
\* strictly increasing from 10 to 790, every y is in [10, 110], the minimum
\* maps to y = 110 and, unless all values are equal, the maximum maps to
\* y = 10; a history of fewer than 2 values gives the empty path.
C16_PathInsidePlot ==
    path # Null =>
        LET pts == path[1]
            n == Len(history)
        IN  /\ n < 2 => pts = <<>>
            /\ n >= 2 =>
                 /\ Len(pts) = n
                 /\ \A i \in 1..n :
                      /\ pts[i].xDen > 0
                      /\ pts[i].yDen > 0
                      /\ pts[i].xNum * (n - 1)
                           = (10 * (n - 1) + (i - 1) * 780) * pts[i].xDen
                      /\ 10 * pts[i].yDen <= pts[i].yNum
                      /\ pts[i].yNum <= 110 * pts[i].yDen
                      /\ (\A j \in 1..n : history[i] <= history[j]) =>
                             pts[i].yNum = 110 * pts[i].yDen
                      /\ (/\ \A j \in 1..n : history[j] <= history[i]
                          /\ \E j \in 1..n : history[j] # history[i]) =>
                             pts[i].yNum = 10 * pts[i].yDen
                 /\ \A i \in 1..(n - 1) :
                      pts[i].xNum * pts[i + 1].xDen < pts[i + 1].xNum * pts[i].xDen
                 /\ pts[1].xNum = 10 * pts[1].xDen
                 /\ pts[n].xNum = 790 * pts[n].xDen

\* the path of a history whose values are all equal
C16_Witness ==
    /\ path # Null
    /\ Len(history) = 3
    /\ history[1] = history[2]
    /\ history[2] = history[3]
    /\ Len(path[1]) = 3

\* the path of a history whose values differ
C16_WitnessSpread ==
    /\ path # Null
    /\ Len(history) = 3
    /\ history[1] < history[2]
    /\ history[3] < history[1]

\* the empty path of a history of one value
C16_WitnessEmpty ==
    /\ path = Some(<<>>)
    /\ Len(history) = 1

====
